---- MODULE Spec2Model ----
(***************************************************************************)
(* A model of rsms: the Commander (coordinator) that owns the              *)
(* administrative worker and the ordinary protocol workers, the entry      *)
(* point that drives it, and the accept loop of Contributor::startup.      *)
(*                                                                         *)
(* Three specifications share the state:                                   *)
(*   Spec       the process entry point, src/src/main.rs                   *)
(*   LibSpec    a caller that invokes the Commander's public lifecycle     *)
(*              methods in any order (the library's public API)            *)
(*   ServeSpec  stand-alone Contributors running Contributor::startup      *)
(***************************************************************************)
EXTENDS Integers, Sequences, FiniteSets, TLC

(* ---------------------------------------------------------------- bounds *)

\* the number of Commander calls the LibSpec caller issues
MaxCalls == 3

\* the number of connections the listeners of ServeSpec accept altogether
MaxConns == 2

\* the number of non-empty reads the connection handlers perform altogether
MaxReads == 2

\* the length of the names handed to Category::from, all of which are tried
MaxNameLen == 4

(* -------------------------------------------------------------- category *)

\* the characters of the preset names
NameChars(name) ==
    CASE name = "RTMP" -> <<"R", "T", "M", "P">>
      [] name = "HTTP" -> <<"H", "T", "T", "P">>
      [] name = "RTSP" -> <<"R", "T", "S", "P">>
      [] name = "GB28181" -> <<"G", "B", "2", "8", "1", "8", "1">>

\* a match on the first four characters instead of the whole name
CategoryFrom_Prefix(name) ==
    LET head == IF Len(name) > 4 THEN SubSeq(name, 1, 4) ELSE name
    IN  CASE head = NameChars("RTMP") -> "RTMP"
          [] head = NameChars("HTTP") -> "HTTP"
          [] head = NameChars("RTSP") -> "RTSP"
          [] OTHER -> "INVALID"

\* Category::from: a match on the whole name, INVALID for every other one
CategoryFrom(name) ==
    CASE name = NameChars("RTMP") -> "RTMP"
      [] name = NameChars("HTTP") -> "HTTP"
      [] name = NameChars("RTSP") -> "RTSP"
      [] OTHER -> "INVALID"

(* -------------------------------------------------------------- profiles *)

ProfileRTMP == [name |-> "RTMP", port |-> 1935, log |-> TRUE, enable |-> TRUE]

ProfileHTTP == [name |-> "HTTP", port |-> 8080, log |-> TRUE, enable |-> TRUE]

ProfileRTSP == [name |-> "RTSP", port |-> 5544, log |-> TRUE, enable |-> TRUE]

ProfileGB28181 == [name |-> "GB28181", port |-> 5060, log |-> TRUE, enable |-> TRUE]

ProfileAPI_ADMIN == [name |-> "HTTP", port |-> 8080, log |-> TRUE, enable |-> TRUE]

\* the ports of the loopback interface the model follows
Ports == {1935, 8080, 5544}

\* Context::new: no session, no listener
ContextNew == [sessions |-> <<>>, listener |-> "None"]

\* Contributor::from
ContributorFrom(profile) == [profile |-> profile, context |-> ContextNew]

\* AdminContributor::from: the wrapped Contributor and an empty server slot
AdminContributorFrom(profile) == [this |-> ContributorFrom(profile), server |-> "None"]

\* Commander::new: the administrative worker and an empty collection
CommanderNew == [this |-> AdminContributorFrom(ProfileAPI_ADMIN), others |-> <<>>]

(* ----------------------------------------------------------------- state *)

VARIABLES
    this,         \* Commander.this, the administrative worker
    others,       \* Commander.others, the ordinary workers in insertion order
    cmdOp,        \* the Commander method being executed, "none" between calls
    cmdPc,        \* the position inside that method
    cmdI,         \* the index of the loop that method is in
    trace,        \* the calls made, returned and delivered so far, in order
    procState,    \* "running", "panicked" or "exited"
    adminServer,  \* the administrative HTTP server: "none", "serving", "stopped"
    portOwner,    \* who holds the listening socket of each port
    shutdown,     \* whether a shutdown signal has been requested
    acc,          \* ServeSpec: the position of each stand-alone startup
    contribs,     \* ServeSpec: the stand-alone Contributors
    acceptErrs,   \* ServeSpec: the failed accept calls of each Contributor
    conns,        \* ServeSpec: the accepted connections and their handlers
    recvd,        \* StopSpec: the lifecycle calls each stand-alone Contributor received
    catName,      \* CatSpec: the name handed to Category::from
    catOut        \* CatSpec: what Category::from returned, "unset" before the call

cmdVars == <<this, others, cmdOp, cmdPc, cmdI, trace, procState, adminServer, shutdown>>

serveVars == <<acc, contribs, acceptErrs, conns>>

auxVars == <<recvd, catName, catOut>>

vars == <<this, others, cmdOp, cmdPc, cmdI, trace, procState, adminServer,
          portOwner, shutdown, acc, contribs, acceptErrs, conns, recvd, catName, catOut>>

\* the stand-alone Contributors of ServeSpec
Contribs == {"c1", "c2"}

\* the peer addresses connections come from
Peers == {"p1", "p2"}

(* --------------------------------------------------- the lifecycle trace *)

CallEv(op) == [k |-> "call", w |-> 0, op |-> op, n |-> Len(others)]

RetEv(op) == [k |-> "ret", w |-> 0, op |-> op, n |-> Len(others)]

\* worker w (0: the administrative worker, i: others[i]) receives op
RecvEv(w, op) == [k |-> "recv", w |-> w, op |-> op, n |-> Len(others)]

\* worker w's op has returned (logged for the one method that blocks)
FinEv(w, op) == [k |-> "fin", w |-> w, op |-> op, n |-> Len(others)]

(* ------------------------------------------------------------ Contributor *)

\* impl Serve for Contributor: every lifecycle method and hook has an empty body
ContributorServe(c, op) == c

\* impl Serve for AdminContributor: start, stop, destroy and the hooks are empty
AdminServeNoop(a, op) == a

(* -------------------------------------------------------------- Commander *)

\* an init that pushes the RTSP worker before the HTTP worker
InitPresets_Swapped == <<ProfileRTMP, ProfileRTSP, ProfileHTTP>>

\* Commander::init pushes Contributors for these presets, in this order
InitPresets == <<ProfileRTMP, ProfileHTTP, ProfileRTSP>>

Upto(n) == [i \in 1..n |-> i]

\* a Commander that walks its collection before it calls self.this
InitOrder_OthersFirst(n) == Upto(n) \o <<0>>

StartOrder_OthersFirst(n) == Upto(n) \o <<0>>

\* the workers a Commander method calls, in call order, with n ordinary workers
\* (0 is self.this, i is self.others[i])
InitOrder(n) == <<0>> \o Upto(n)

StartOrder(n) == <<0>> \o Upto(n)

\* a Commander whose stop and destroy also call self.this
StopOrder_WithAdmin(n) == <<0>> \o Upto(n)

StopOrder(n) == Upto(n)

DestroyOrder(n) == Upto(n)

Order(op, n) ==
    CASE op = "init" -> InitOrder(n)
      [] op = "start" -> StartOrder(n)
      [] op = "stop" -> StopOrder(n)
      [] op = "destroy" -> DestroyOrder(n)
      [] OTHER -> <<>>

\* a Commander method is entered
Begin(op) ==
    /\ cmdOp' = op
    /\ cmdPc' = CASE op = "init" -> "push"
                  [] op = "run_loop" -> "print"
                  [] OTHER -> "deliver"
    /\ cmdI' = 1
    /\ trace' = Append(trace, CallEv(op))

\* Commander::init, the three pushes
InitPush ==
    /\ procState = "running"
    /\ cmdOp = "init"
    /\ cmdPc = "push"
    /\ others' = Append(others, ContributorFrom(InitPresets[cmdI]))
    /\ IF cmdI < Len(InitPresets)
          THEN cmdI' = cmdI + 1 /\ cmdPc' = cmdPc
          ELSE cmdI' = 1 /\ cmdPc' = "deliver"
    /\ UNCHANGED <<this, cmdOp, trace, procState, adminServer, portOwner, shutdown>>
    /\ UNCHANGED serveVars
    /\ UNCHANGED auxVars

\* the worker the loop of the current method is at
Target == Order(cmdOp, Len(others))[cmdI]

AtDelivery ==
    /\ procState = "running"
    /\ cmdOp \in {"init", "start", "stop", "destroy"}
    /\ cmdPc = "deliver"
    /\ cmdI <= Len(Order(cmdOp, Len(others)))

\* AdminContributor::startup: the address is taken from the wrapped profile
AdminPort == this.this.profile.port

\* self.this.init(): AdminContributor::init blocks on startup, whose bind succeeds
AdminBindOk ==
    /\ AtDelivery
    /\ Target = 0
    /\ cmdOp = "init"
    /\ portOwner[AdminPort] = "free"
    /\ portOwner' = [portOwner EXCEPT ![AdminPort] = "admin"]
    /\ adminServer' = "serving"
    /\ cmdPc' = "blocked"
    /\ trace' = Append(trace, RecvEv(0, "init"))
    /\ UNCHANGED <<this, others, cmdOp, cmdI, procState, shutdown>>
    /\ UNCHANGED serveVars
    /\ UNCHANGED auxVars

\* ... or fails: bind(addr).unwrap() panics and the panic unwinds through main
AdminBindFail ==
    /\ AtDelivery
    /\ Target = 0
    /\ cmdOp = "init"
    /\ portOwner[AdminPort] # "free"
    /\ procState' = "panicked"
    /\ trace' = Append(trace, RecvEv(0, "init"))
    /\ UNCHANGED <<this, others, cmdOp, cmdPc, cmdI, adminServer, portOwner, shutdown>>
    /\ UNCHANGED serveVars
    /\ UNCHANGED auxVars

\* the HTTP server stops serving: run().await resolves, for whatever reason
\* (a signal, a failure of the server); its result is dropped and the socket closed
AdminServerStops ==
    /\ procState = "running"
    /\ adminServer = "serving"
    /\ adminServer' = "stopped"
    /\ portOwner' = [portOwner EXCEPT ![AdminPort] = "free"]
    /\ UNCHANGED <<this, others, cmdOp, cmdPc, cmdI, trace, procState, shutdown>>
    /\ UNCHANGED serveVars
    /\ UNCHANGED auxVars

\* an init that spawns the server instead of awaiting it returns while it serves
AdminInitReturns_Spawned(server) == server \in {"serving", "stopped"}

\* block_on(startup) hands control back once the server's future has resolved
AdminInitReturns(server) == server = "stopped"

AdminInitReturn ==
    /\ procState = "running"
    /\ cmdOp = "init"
    /\ cmdPc = "blocked"
    /\ AdminInitReturns(adminServer)
    /\ cmdPc' = "deliver"
    /\ cmdI' = cmdI + 1
    /\ trace' = Append(trace, FinEv(0, "init"))
    /\ UNCHANGED <<this, others, cmdOp, procState, adminServer, portOwner, shutdown>>
    /\ UNCHANGED serveVars
    /\ UNCHANGED auxVars

\* self.this.start(): an empty method of the administrative worker
DeliverAdmin ==
    /\ AtDelivery
    /\ Target = 0
    /\ cmdOp # "init"
    /\ this' = AdminServeNoop(this, cmdOp)
    /\ cmdI' = cmdI + 1
    /\ trace' = Append(trace, RecvEv(0, cmdOp))
    /\ UNCHANGED <<others, cmdOp, cmdPc, procState, adminServer, portOwner, shutdown>>
    /\ UNCHANGED serveVars
    /\ UNCHANGED auxVars

\* item.init() / start() / stop() / destroy() on one ordinary worker
DeliverOther ==
    /\ AtDelivery
    /\ Target # 0
    /\ others' = [others EXCEPT ![Target] = ContributorServe(@, cmdOp)]
    /\ cmdI' = cmdI + 1
    /\ trace' = Append(trace, RecvEv(Target, cmdOp))
    /\ UNCHANGED <<this, cmdOp, cmdPc, procState, adminServer, portOwner, shutdown>>
    /\ UNCHANGED serveVars
    /\ UNCHANGED auxVars

\* Commander::run_loop prints "loop start" and returns
RunLoop ==
    /\ procState = "running"
    /\ cmdOp = "run_loop"
    /\ cmdPc = "print"
    /\ cmdPc' = "deliver"
    /\ UNCHANGED <<this, others, cmdOp, cmdI, trace, procState, adminServer,
                   portOwner, shutdown>>
    /\ UNCHANGED serveVars
    /\ UNCHANGED auxVars

\* the method's loop is over: it returns to its caller
Return ==
    /\ procState = "running"
    /\ cmdOp # "none"
    /\ cmdPc = "deliver"
    /\ cmdI > Len(Order(cmdOp, Len(others)))
    /\ cmdOp' = "none"
    /\ trace' = Append(trace, RetEv(cmdOp))
    /\ UNCHANGED <<this, others, cmdPc, cmdI, procState, adminServer, portOwner, shutdown>>
    /\ UNCHANGED serveVars
    /\ UNCHANGED auxVars

\* the environment: a shutdown signal is sent to the process
RequestShutdown ==
    /\ procState = "running"
    /\ ~shutdown
    /\ shutdown' = TRUE
    /\ UNCHANGED <<this, others, cmdOp, cmdPc, cmdI, trace, procState, adminServer,
                   portOwner>>
    /\ UNCHANGED serveVars
    /\ UNCHANGED auxVars

(* ------------------------------------------------------------ entry point *)

\* an entry point that starts the Commander before it initialises it
MainSeq_StartFirst == <<"start", "init", "run_loop", "stop", "destroy">>

\* main: the Commander calls, in program order
MainSeq == <<"init", "start", "run_loop", "stop", "destroy">>

\* the Commander calls begun so far
Calls == SelectSeq(trace, LAMBDA e : e.k = "call")

Rets == SelectSeq(trace, LAMBDA e : e.k = "ret")

MainCall ==
    /\ procState = "running"
    /\ cmdOp = "none"
    /\ Len(Calls) < Len(MainSeq)
    /\ Begin(MainSeq[Len(Calls) + 1])
    /\ UNCHANGED <<this, others, procState, adminServer, portOwner, shutdown>>
    /\ UNCHANGED serveVars
    /\ UNCHANGED auxVars

\* main returns after destroy
MainExit ==
    /\ procState = "running"
    /\ cmdOp = "none"
    /\ Len(Calls) = Len(MainSeq)
    /\ procState' = "exited"
    /\ UNCHANGED <<this, others, cmdOp, cmdPc, cmdI, trace, adminServer, portOwner, shutdown>>
    /\ UNCHANGED serveVars
    /\ UNCHANGED auxVars

CmdInit ==
    /\ this = CommanderNew.this
    /\ others = CommanderNew.others
    /\ cmdOp = "none"
    /\ cmdPc = "deliver"
    /\ cmdI = 1
    /\ trace = <<>>
    /\ procState = "running"
    /\ adminServer = "none"
    /\ shutdown = FALSE

\* ServeSpec's state, untouched by the Commander
\* CatSpec's and StopSpec's state, untouched elsewhere
AuxIdle ==
    /\ recvd = [c \in Contribs |-> <<>>]
    /\ catName = <<>>
    /\ catOut = "unset"

ServeIdle ==
    /\ acc = [c \in Contribs |-> "new"]
    /\ contribs = [c \in Contribs |-> ContributorFrom(ProfileRTMP)]
    /\ acceptErrs = [c \in Contribs |-> 0]
    /\ conns = <<>>

\* any of the ports may be held by another process when this one starts
Init ==
    /\ CmdInit
    /\ portOwner \in [Ports -> {"free", "ext"}]
    /\ ServeIdle
    /\ AuxIdle

CommanderStep ==
    \/ InitPush
    \/ AdminBindOk
    \/ AdminBindFail
    \/ AdminServerStops
    \/ AdminInitReturn
    \/ DeliverAdmin
    \/ DeliverOther
    \/ RunLoop
    \/ Return
    \/ RequestShutdown

Next ==
    \/ MainCall
    \/ MainExit
    \/ CommanderStep

Spec == Init /\ [][Next]_vars

(* ------------------------------------------------- the library's callers *)

\* the methods of impl Serve for Commander, and Commander::run_loop
LibOps == {"init", "start", "run_loop", "stop", "destroy", "on_read", "on_write", "on_error"}

\* a caller holding the Commander invokes any of its public methods
ApiCall ==
    /\ procState = "running"
    /\ cmdOp = "none"
    /\ Len(Calls) < MaxCalls
    /\ \E op \in LibOps : Begin(op)
    /\ UNCHANGED <<this, others, procState, adminServer, portOwner, shutdown>>
    /\ UNCHANGED serveVars
    /\ UNCHANGED auxVars

LibNext ==
    \/ ApiCall
    \/ CommanderStep

LibSpec == Init /\ [][LibNext]_vars

(* ------------------------------------------------- Contributor::startup *)

\* the profiles the stand-alone Contributors are built from
ServeProfiles == {ProfileRTMP, ProfileHTTP}

\* the connections not yet closed by their handler
Live(c) == {i \in 1..Len(conns) : conns[i].c = c /\ conns[i].pc # "done"}

\* TcpListener::bind succeeds: the listener is a local of startup, the
\* assignment to context.listener is commented out
StartupBindOk(c) ==
    /\ acc[c] = "new"
    /\ portOwner[contribs[c].profile.port] = "free"
    /\ portOwner' = [portOwner EXCEPT ![contribs[c].profile.port] = c]
    /\ acc' = [acc EXCEPT ![c] = "accepting"]
    /\ UNCHANGED <<contribs, acceptErrs, conns>>
    /\ UNCHANGED cmdVars
    /\ UNCHANGED auxVars

\* TcpListener::bind fails: expect("Bind ... failed") panics in startup
StartupBindFail(c) ==
    /\ acc[c] = "new"
    /\ portOwner[contribs[c].profile.port] # "free"
    /\ acc' = [acc EXCEPT ![c] = "bind_panic"]
    /\ UNCHANGED <<contribs, acceptErrs, conns, portOwner>>
    /\ UNCHANGED cmdVars
    /\ UNCHANGED auxVars

\* the task tokio::spawn starts for an accepted socket
HandlerNew(c, peer) ==
    [c |-> c, peer |-> peer, pc |-> "read", reads |-> 0, writes |-> 0, end |-> "open",
     pending |-> "none", tx |-> "none"]

\* a loop that awaits the handler itself instead of spawning it
AfterAccept_Inline(st) == "handling"

\* tokio::spawn returns at once: the loop goes back to listener.accept()
AfterAccept(st) == "accepting"

\* listener.accept() returns a connection: a handler is spawned for it; the
\* Session is never built and never pushed (both are commented out)
Accept(c, peer) ==
    /\ acc[c] = "accepting"
    /\ Len(conns) < MaxConns
    /\ \A i \in Live(c) : conns[i].peer # peer
    /\ conns' = Append(conns, HandlerNew(c, peer))
    /\ acc' = [acc EXCEPT ![c] = AfterAccept(@)]
    /\ UNCHANGED <<contribs, acceptErrs, portOwner>>
    /\ UNCHANGED cmdVars
    /\ UNCHANGED auxVars

\* what startup does when listener.accept() returns an error:
\* expect("accept error") panics, the loop is left and the listener dropped
AfterAcceptError(st) == "accept_panic"

AcceptFail(c) ==
    /\ acc[c] = "accepting"
    /\ acceptErrs[c] = 0
    /\ acceptErrs' = [acceptErrs EXCEPT ![c] = @ + 1]
    /\ acc' = [acc EXCEPT ![c] = AfterAcceptError(@)]
    /\ portOwner' = IF AfterAcceptError(acc[c]) = "accepting"
                       THEN portOwner
                       ELSE [portOwner EXCEPT ![contribs[c].profile.port] = "free"]
    /\ UNCHANGED <<contribs, conns>>
    /\ UNCHANGED cmdVars
    /\ UNCHANGED auxVars

\* the bytes a peer may send
Payloads == {"PING", "GET"}

\* send_buf, the literal the handler writes
SendBuf == "HTTP/1.1 200 OK\r\n\r\n\r\n<h1>Good</h1>"

\* a handler that answers with what it read
Response_Echo(data) == data

\* what the handler writes after reading data: send_buf, whatever was read
Response(data) == SendBuf

\* a handler without the Ok(0) arm goes on to write after an empty read
AfterRead_NoEof(res) ==
    CASE res = "eof" -> "write"
      [] res = "data" -> "write"
      [] res = "err" -> "done"

\* the match on socket.read: Ok(0) => return, Ok(n) => n, Err => return
AfterRead(res) ==
    CASE res = "eof" -> "done"
      [] res = "data" -> "write"
      [] res = "err" -> "done"

\* a handler that logs a failed write and reads on
AfterWrite_NoReturn(res) ==
    CASE res = "ok" -> "read"
      [] res = "err" -> "read"

\* if let Err(e) = socket.write_all(..) { ...; return; }, else the loop goes on
AfterWrite(res) ==
    CASE res = "ok" -> "read"
      [] res = "err" -> "done"

\* socket.read returns Ok(0): the handler returns
HandlerReadEof(i) ==
    /\ conns[i].pc = "read"
    /\ conns' = [conns EXCEPT ![i].pc = AfterRead("eof"), ![i].end = "eof"]
    /\ UNCHANGED <<acc, contribs, acceptErrs, portOwner>>
    /\ UNCHANGED cmdVars
    /\ UNCHANGED auxVars

\* the non-empty reads of the first n connections
RECURSIVE ReadsUpTo(_)
ReadsUpTo(n) == IF n = 0 THEN 0 ELSE conns[n].reads + ReadsUpTo(n - 1)

\* socket.read returns Ok(n), n > 0: the handler goes on to write
HandlerReadData(i) ==
    /\ conns[i].pc = "read"
    /\ ReadsUpTo(Len(conns)) < MaxReads
    /\ \E data \in Payloads :
          conns' = [conns EXCEPT ![i].pc = AfterRead("data"), ![i].reads = @ + 1,
                                 ![i].pending = data]
    /\ UNCHANGED <<acc, contribs, acceptErrs, portOwner>>
    /\ UNCHANGED cmdVars
    /\ UNCHANGED auxVars

\* socket.read returns Err: logged, the handler returns
HandlerReadErr(i) ==
    /\ conns[i].pc = "read"
    /\ conns' = [conns EXCEPT ![i].pc = AfterRead("err"), ![i].end = "read_err"]
    /\ UNCHANGED <<acc, contribs, acceptErrs, portOwner>>
    /\ UNCHANGED cmdVars
    /\ UNCHANGED auxVars

\* socket.write_all(send_buf) succeeds: back to the read
HandlerWriteOk(i) ==
    /\ conns[i].pc = "write"
    /\ conns' = [conns EXCEPT ![i].pc = AfterWrite("ok"), ![i].writes = @ + 1,
                             ![i].tx = Response(conns[i].pending), ![i].pending = "none"]
    /\ UNCHANGED <<acc, contribs, acceptErrs, portOwner>>
    /\ UNCHANGED cmdVars
    /\ UNCHANGED auxVars

\* socket.write_all fails: logged, the handler returns
HandlerWriteErr(i) ==
    /\ conns[i].pc = "write"
    /\ conns' = [conns EXCEPT ![i].pc = AfterWrite("err"), ![i].end = "write_err"]
    /\ UNCHANGED <<acc, contribs, acceptErrs, portOwner>>
    /\ UNCHANGED cmdVars
    /\ UNCHANGED auxVars

\* the first Contributor is built from either profile, the others from HTTP's;
\* port 8080 may be held by another process
ServeInit ==
    /\ CmdInit
    /\ portOwner \in {f \in [Ports -> {"free", "ext"}] : \A p \in Ports : p # 8080 => f[p] = "free"}
    /\ acc = [c \in Contribs |-> "new"]
    /\ contribs \in {f \in [Contribs -> {ContributorFrom(p) : p \in ServeProfiles}] :
                        \A c \in Contribs : c # "c1" => f[c].profile = ProfileHTTP}
    /\ acceptErrs = [c \in Contribs |-> 0]
    /\ conns = <<>>
    /\ AuxIdle

ServeNext ==
    \/ \E c \in Contribs : StartupBindOk(c)
    \/ \E c \in Contribs : StartupBindFail(c)
    \/ \E c \in Contribs, peer \in Peers : Accept(c, peer)
    \/ \E c \in Contribs : AcceptFail(c)
    \/ \E i \in 1..Len(conns) : HandlerReadEof(i)
    \/ \E i \in 1..Len(conns) : HandlerReadData(i)
    \/ \E i \in 1..Len(conns) : HandlerReadErr(i)
    \/ \E i \in 1..Len(conns) : HandlerWriteOk(i)
    \/ \E i \in 1..Len(conns) : HandlerWriteErr(i)

ServeSpec == ServeInit /\ [][ServeNext]_vars

(* ------------------------------------- stop and destroy of a Contributor *)

\* the caller drops the future of startup (startup has no exit of its own and
\* borrows the Contributor while it runs): the listener is dropped with it,
\* the spawned handlers are detached tasks and run on
StartupDropped(c) ==
    /\ acc[c] = "accepting"
    /\ acc' = [acc EXCEPT ![c] = "dropped"]
    /\ portOwner' = [portOwner EXCEPT ![contribs[c].profile.port] = "free"]
    /\ UNCHANGED <<contribs, acceptErrs, conns>>
    /\ UNCHANGED cmdVars
    /\ UNCHANGED auxVars

\* Contributor::stop on a worker that has run: callable once startup no
\* longer borrows the Contributor
ContribStop(c) ==
    /\ acc[c] = "dropped"
    /\ recvd[c] = <<>>
    /\ contribs' = [contribs EXCEPT ![c] = ContributorServe(@, "stop")]
    /\ recvd' = [recvd EXCEPT ![c] = Append(@, "stop")]
    /\ UNCHANGED <<acc, acceptErrs, conns, portOwner, catName, catOut>>
    /\ UNCHANGED cmdVars

\* Contributor::destroy, after stop
ContribDestroy(c) ==
    /\ acc[c] = "dropped"
    /\ recvd[c] = <<"stop">>
    /\ contribs' = [contribs EXCEPT ![c] = ContributorServe(@, "destroy")]
    /\ recvd' = [recvd EXCEPT ![c] = Append(@, "destroy")]
    /\ UNCHANGED <<acc, acceptErrs, conns, portOwner, catName, catOut>>
    /\ UNCHANGED cmdVars

StopNext ==
    \/ ServeNext
    \/ \E c \in Contribs : StartupDropped(c)
    \/ \E c \in Contribs : ContribStop(c)
    \/ \E c \in Contribs : ContribDestroy(c)

StopSpec == ServeInit /\ [][StopNext]_vars

(* --------------------------------------------------------------- Session *)

\* the socket of connection i: its local and its peer address
StreamOf(i) ==
    [local |-> <<"127.0.0.1", contribs[conns[i].c].profile.port>>, peer |-> conns[i].peer]

\* Session::new
SessionNew(stream, port, category) == [stream |-> stream, category |-> category, port |-> port]

\* an equality that leaves the peer address out
SessionEq_NoPeer(a, b) ==
    /\ a.port = b.port
    /\ a.category = b.category
    /\ a.stream.local = b.stream.local

\* impl PartialEq for Session: port, category, local address, peer address
SessionEq(a, b) ==
    /\ a.port = b.port
    /\ a.category = b.category
    /\ a.stream.local = b.stream.local
    /\ a.stream.peer = b.stream.peer

\* the Session of connection i, as startup's (commented-out) Session::new call builds it
SessionOf(i) ==
    SessionNew(StreamOf(i), contribs[conns[i].c].profile.port,
               CategoryFrom(NameChars(contribs[conns[i].c].profile.name)))

\* the live connections of c, in acceptance order
LiveSeq(c) == SelectSeq([i \in 1..Len(conns) |-> i], LAMBDA i : i \in Live(c))

(* ------------------------------------------------------- Category::from *)

\* the characters names are made of
Alphabet == {"R", "T", "M", "P", "H", "S"}

\* every name of n characters
NamesOfLen(n) == [1..n -> Alphabet]

\* other spellings, longer names, the name of a preset without a category
OtherNames ==
    {NameChars("GB28181"),
     <<"r", "t", "m", "p">>, <<"h", "t", "t", "p">>, <<"R", "t", "s", "p">>,
     <<"R", "T", "M", "P", "S">>, <<"H", "T", "T", "P", " ">>, <<" ", "R", "T", "S", "P">>}

CatInputs == UNION {NamesOfLen(n) : n \in 0..MaxNameLen} \cup OtherNames

\* Category::from(name) is called
CategoryApply ==
    /\ catOut = "unset"
    /\ catOut' = CategoryFrom(catName)
    /\ UNCHANGED <<catName, recvd, portOwner>>
    /\ UNCHANGED cmdVars
    /\ UNCHANGED serveVars

CatInit ==
    /\ CmdInit
    /\ portOwner = [p \in Ports |-> "free"]
    /\ ServeIdle
    /\ recvd = [c \in Contribs |-> <<>>]
    /\ catName \in CatInputs
    /\ catOut = "unset"

CatNext == CategoryApply

CatSpec == CatInit /\ [][CatNext]_vars

(* ------------------------------------------------ reading the trace back *)

IsPrefix(s, t) == Len(s) <= Len(t) /\ \A i \in 1..Len(s) : s[i] = t[i]

\* the positions of the Commander calls of method op
CallsOf(op) == {j \in 1..Len(trace) : trace[j].k = "call" /\ trace[j].op = op}

\* the last event of the call entered at position j
SegEnd(j) ==
    LET later == {k \in (j + 1)..Len(trace) : trace[k].k = "call"}
    IN  IF later = {} THEN Len(trace)
        ELSE (CHOOSE k \in later : \A m \in later : k <= m) - 1

Seg(j) == SubSeq(trace, j + 1, SegEnd(j))

\* what the workers received during the call entered at position j
SegRecv(j) == SelectSeq(Seg(j), LAMBDA e : e.k = "recv")

Returned(j) == \E k \in (j + 1)..SegEnd(j) : trace[k].k = "ret"

\* the lifecycle methods worker w has received, in order
OpsOf(w) ==
    LET r == SelectSeq(trace, LAMBDA e : e.k = "recv" /\ e.w = w)
    IN  [i \in 1..Len(r) |-> r[i].op]

CallOps == [i \in 1..Len(Calls) |-> Calls[i].op]

HasReturned(op) == \E j \in 1..Len(trace) : trace[j].k = "ret" /\ trace[j].op = op

HasBegun(op) == CallsOf(op) # {}

\* the administrative worker first, then the ordinary workers 1..n
AdminThenOthers(n) == [i \in 1..(n + 1) |-> i - 1]

\* the listening sockets held for ordinary worker i of the Commander
OtherTag(i) == "o" \o ToString(i)

SocketsOf(owner) == {p \in Ports : portOwner[p] = owner}

(* ------------------------------------------------------------------ C1 *)

\* C1: in every run of the entry point the five Commander operations init,
\* start, run loop, stop and destroy happen in this order, none begins
\* before the previous one has returned, and when the process has ended each
\* of the five has been reached exactly once.
C1_FiveInOrderAllReached ==
    /\ IsPrefix(CallOps, <<"init", "start", "run_loop", "stop", "destroy">>)
    /\ Len(Rets) = Len(Calls) - (IF cmdOp = "none" THEN 0 ELSE 1)
    /\ procState # "running" =>
          /\ CallOps = <<"init", "start", "run_loop", "stop", "destroy">>
          /\ Len(Rets) = Len(Calls)

(* ------------------------------------------------------------------ C2 *)

\* C2: after any number n >= 1 of completed Commander.init calls the
\* ordinary-worker collection holds the same workers as after one call: one
\* per preset.
C2_InitIdempotent ==
    (cmdOp = "none" /\ HasReturned("init")) =>
        others = <<ContributorFrom(ProfileRTMP), ContributorFrom(ProfileHTTP),
                   ContributorFrom(ProfileRTSP)>>

(* ------------------------------------------------------------------ C3 *)

C4_AcceptLoopSurvives ==
    \A c \in Contribs : acceptErrs[c] > 0 => acc[c] = "accepting"

(* ------------------------------------------------------------------ C5 *)

\* the administrative worker's bind has succeeded
AdminBound == adminServer \in {"serving", "stopped"}

\* ordinary worker i of the Commander has bound a listener
OtherBound(i) == others[i].context.listener # "None" \/ SocketsOf(OtherTag(i)) # {}

\* C5: when an ordinary worker is configured for the administrative worker's
\* port (the HTTP and administrative presets, both 8080), then once the
\* Commander has been initialised and started exactly one of the two has
\* bound the port and the failure of the other has been reported.
C5_BindFailureSurfaced ==
    \A i \in 1..Len(others) :
        (HasReturned("start") /\ others[i].profile.port = AdminPort) =>
            /\ AdminBound # OtherBound(i)
            /\ procState = "panicked"

(* ------------------------------------------------------------------ C6 *)

\* the port of ordinary worker i is that of no other worker and of no other process
PortOwn(i) ==
    /\ others[i].profile.port # AdminPort
    /\ \A k \in 1..Len(others) : k # i => others[k].profile.port # others[i].profile.port
    /\ portOwner[others[i].profile.port] # "ext"

\* C6: once the Commander's init and start have both been performed, every
\* enabled ordinary worker whose port conflicts with no other has exactly one
\* listening socket, bound to its Profile's port.
C6_OneListenerPerWorker ==
    \A i \in 1..Len(others) :
        (HasReturned("init") /\ HasReturned("start") /\ others[i].profile.enable /\ PortOwn(i)) =>
            SocketsOf(OtherTag(i)) = {others[i].profile.port}

(* ------------------------------------------------------------------ C7 *)

\* C7: in the entry-point sequence stop and destroy are not reached until a
\* shutdown has been requested: the run loop does not return before.
C7_RunLoopWaitsForShutdown ==
    (HasBegun("stop") \/ HasBegun("destroy")) => shutdown

(* ------------------------------------------------------------------ C8 *)

\* C8: in every state where the administrative server is serving,
\* Commander.init has not returned, no ordinary worker has received init and
\* Commander.start has not begun.
C8_AdminInitBlocks ==
    adminServer = "serving" =>
        /\ cmdOp = "init"
        /\ ~HasReturned("init")
        /\ \A j \in 1..Len(trace) : trace[j].k = "recv" => trace[j].w = 0
        /\ ~HasBegun("start")

\* C8's case: the server is serving, inside Commander.init, the ordinary
\* workers already appended.
C8_Witness ==
    /\ adminServer = "serving"
    /\ cmdOp = "init"
    /\ Len(others) = Len(InitPresets)

(* ------------------------------------------------------------------ C9 *)

\* C9: Commander.init appends the ordinary workers first and then propagates
\* init to the administrative worker and, after it has returned, to each
\* ordinary worker in insertion order.
C9_InitPropagationOrder ==
    \A j \in CallsOf("init") :
        LET r == SegRecv(j)
            n == trace[j].n + 3
        IN  /\ \A i \in 1..Len(r) : r[i].op = "init" /\ r[i].n = n
            /\ IsPrefix([i \in 1..Len(r) |-> r[i].w], AdminThenOthers(n))
            /\ Len(r) > 1 =>
                  \E a, b \in 1..Len(Seg(j)) :
                      /\ a < b
                      /\ Seg(j)[a].k = "fin" /\ Seg(j)[a].w = 0
                      /\ Seg(j)[b].k = "recv" /\ Seg(j)[b].w = 1
                      /\ \A m \in 1..(b - 1) : Seg(j)[m].k = "recv" => Seg(j)[m].w = 0
            /\ Returned(j) => Len(r) = n + 1

\* C9's case: a second Commander.init has returned, the collection then
\* holding the workers of both calls.
C9_Witness ==
    \E j \in CallsOf("init") :
        /\ Returned(j)
        /\ trace[j].n = 3
        /\ Len(SegRecv(j)) = 7

(* ----------------------------------------------------------------- C10 *)

\* C10: Commander.start is propagated to the administrative worker first and
\* then to every ordinary worker in insertion order, each exactly once per call.
C10_StartPropagationOrder ==
    \A j \in CallsOf("start") :
        LET r == SegRecv(j)
            n == trace[j].n
        IN  /\ \A i \in 1..Len(r) : r[i].op = "start"
            /\ IsPrefix([i \in 1..Len(r) |-> r[i].w], AdminThenOthers(n))
            /\ Returned(j) => Len(r) = n + 1

\* C10's case: a Commander.start over a collection of three workers has returned.
C10_Witness ==
    \E j \in CallsOf("start") :
        /\ Returned(j)
        /\ trace[j].n = 3
        /\ Len(SegRecv(j)) = 4

(* ----------------------------------------------------------------- C11 *)

\* what the workers received during every stop or destroy call: the
\* ordinary workers in insertion order, each once, never the administrative one
StopDestroyOthersOnly ==
    \A j \in CallsOf("stop") \cup CallsOf("destroy") :
        LET r == SegRecv(j)
            n == trace[j].n
        IN  /\ \A i \in 1..Len(r) : r[i].op = trace[j].op /\ r[i].w # 0
            /\ IsPrefix([i \in 1..Len(r) |-> r[i].w], [i \in 1..n |-> i])
            /\ Returned(j) => Len(r) = n

\* a step taken inside a stop or destroy call leaves the administrative worker as it was
AdminUntouchedByStopDestroy ==
    cmdOp \in {"stop", "destroy"} =>
        (this' = this /\ adminServer' = adminServer /\ SocketsOf("admin")' = SocketsOf("admin"))

\* C11: Commander.stop and Commander.destroy are propagated to the ordinary
\* workers only, each receiving the call exactly once; the administrative
\* worker receives neither, and no step of a stop or destroy call changes
\* its state (the worker, its server, the socket it holds).
C11_StopDestroyOthersOnly ==
    /\ []StopDestroyOthersOnly
    /\ [][AdminUntouchedByStopDestroy]_vars

\* C11's case: a stop and a destroy over three workers have both returned.
C11_Witness ==
    /\ \E j \in CallsOf("stop") : Returned(j) /\ trace[j].n = 3 /\ Len(SegRecv(j)) = 3
    /\ \E j \in CallsOf("destroy") : Returned(j) /\ trace[j].n = 3 /\ Len(SegRecv(j)) = 3

(* ----------------------------------------------------------------- C18 *)

\* C18: the category of a name is decided by exact match: "RTMP", "HTTP"
\* and "RTSP" give their own category, every other name (GB28181, the empty
\* name, other spellings) gives INVALID, and nothing else is ever returned.
C18_CategoryExactMatch ==
    catOut # "unset" =>
        /\ catOut \in {"INVALID", "RTMP", "HTTP", "RTSP"}
        /\ catOut = "RTMP" <=> catName = <<"R", "T", "M", "P">>
        /\ catOut = "HTTP" <=> catName = <<"H", "T", "T", "P">>
        /\ catOut = "RTSP" <=> catName = <<"R", "T", "S", "P">>
        /\ catName \in {<<>>, <<"G", "B", "2", "8", "1", "8", "1">>, <<"r", "t", "m", "p">>,
                        <<"R", "T", "M", "P", "S">>} => catOut = "INVALID"

\* C18's case: the name of the GB28181 preset has been classified.
C18_Witness ==
    /\ catName = <<"G", "B", "2", "8", "1", "8", "1">>
    /\ catOut = "INVALID"

(* ----------------------------------------------------------------- C12 *)

\* C12: in every reachable state the session collection of a worker's
\* Context holds exactly one Session for each connection the worker has
\* accepted and whose handler has not exited, in acceptance order.
C12_LiveSetHoldsSessions ==
    \A c \in Contribs :
        contribs[c].context.sessions = [k \in 1..Len(LiveSeq(c)) |-> SessionOf(LiveSeq(c)[k])]

(* ----------------------------------------------------------------- C16 *)

\* C16: no two simultaneously live connections of one worker have equal
\* Connection Identity, their peer addresses being distinct; and two
\* identities are equal exactly when category, local address, peer address
\* and port are all equal.
C16_LiveIdentitiesDistinct ==
    /\ \A c \in Contribs : \A i, k \in Live(c) :
          i # k => ~SessionEq(SessionOf(i), SessionOf(k))
    /\ \A i, k \in 1..Len(conns) :
          SessionEq(SessionOf(i), SessionOf(k)) <=>
              /\ CategoryFrom(NameChars(contribs[conns[i].c].profile.name))
                   = CategoryFrom(NameChars(contribs[conns[k].c].profile.name))
              /\ contribs[conns[i].c].profile.port = contribs[conns[k].c].profile.port
              /\ StreamOf(i).local = StreamOf(k).local
              /\ conns[i].peer = conns[k].peer

\* C16's case: two connections of one worker are live at the same time.
C16_Witness ==
    \E c \in Contribs : \E i, k \in Live(c) :
        /\ i # k
        /\ conns[i].pc = "write"
        /\ conns[k].pc = "read"

(* ----------------------------------------------------------------- C13 *)

\* connection i has no Session in its worker's live set
NoSessionOf(i) ==
    \A k \in 1..Len(contribs[conns[i].c].context.sessions) :
        ~SessionEq(contribs[conns[i].c].context.sessions[k], SessionOf(i))

\* C13: a connection whose peer sends nothing and closes is cleaned up: its
\* first read returns length 0, its handler has then terminated without
\* writing anything, and the worker's live set holds no Session and no
\* handler for it.
C13_EmptyConnectionCleanedUp ==
    \A i \in 1..Len(conns) :
        (conns[i].end = "eof" /\ conns[i].reads = 0) =>
            /\ conns[i].pc = "done"
            /\ conns[i].writes = 0
            /\ conns[i].tx = "none"
            /\ i \notin Live(conns[i].c)
            /\ NoSessionOf(i)

\* C13's case: a handler whose first read returned 0, beside a live one.
C13_Witness ==
    \E i, k \in 1..Len(conns) :
        /\ conns[i].end = "eof"
        /\ conns[i].reads = 0
        /\ conns[k].c = conns[i].c
        /\ conns[k].pc = "read"

(* ----------------------------------------------------------------- C14 *)

\* in this step the read or the write of connection i fails
ErrorStep(i) ==
    /\ conns[i].end = "open"
    /\ conns'[i].end \in {"read_err", "write_err"}

\* a failing read or write ends the handler of that connection and nothing else
ErrorEndsOnlyItsHandler ==
    \A i \in 1..Len(conns) :
        ErrorStep(i) =>
            /\ conns'[i].pc = "done"
            /\ acc' = acc
            /\ portOwner' = portOwner
            /\ Len(conns') = Len(conns)
            /\ \A k \in 1..Len(conns) : k # i => conns'[k] = conns[k]
            /\ NoSessionOf(i)'

\* C14: a read or write error on one connection terminates only that
\* connection's handler: the accept loop and every other handler of the
\* worker are as they were, and the live set holds no Session of the failed
\* connection.
C14_ErrorEndsOnlyItsHandler == [][ErrorEndsOnlyItsHandler]_vars

\* C14's case: a write has failed on one connection of a worker that is
\* still accepting and has another handler running.
C14_Witness ==
    \E i, k \in 1..Len(conns) :
        /\ conns[i].end = "write_err"
        /\ conns[k].c = conns[i].c
        /\ conns[k].pc # "done"
        /\ acc[conns[i].c] = "accepting"

(* ----------------------------------------------------------------- C15 *)

\* C15: acceptance is never blocked by per-connection I/O: whatever its
\* handlers are suspended in, a worker that holds its listener can accept a
\* connection arriving from a new peer address (as long as the listeners
\* have accepted fewer than MaxConns connections).
C15_AcceptNeverBlocked ==
    \A c \in Contribs : \A peer \in Peers :
        (/\ portOwner[contribs[c].profile.port] = c
         /\ Len(conns) < MaxConns
         /\ \A i \in Live(c) : conns[i].peer # peer)
            => ENABLED Accept(c, peer)

\* C15's case: a second connection was accepted while the handler of the
\* first is still suspended in its read.
C15_Witness ==
    /\ Len(conns) = 2
    /\ conns[1].c = conns[2].c
    /\ conns[1].pc = "read"
    /\ conns[1].reads = 0

(* ----------------------------------------------------------------- C20 *)

C17_StopHaltsDestroyDrains ==
    \A c \in Contribs :
        /\ recvd[c] # <<>> => acc[c] # "accepting"
        /\ recvd[c] = <<"stop", "destroy">> =>
              /\ SocketsOf(c) = {}
              /\ contribs[c].context.sessions = <<>>
              /\ Live(c) = {}

(* ----------------------------------------------------------------- C19 *)

\* the collection holds the workers of the RTMP, HTTP and RTSP presets, in
\* that order, once per init call; it is empty after construction
OthersArePresetsInOrder ==
    /\ trace = <<>> => others = <<>>
    /\ \A i \in 1..Len(others) :
          others[i] = ContributorFrom(<<ProfileRTMP, ProfileHTTP, ProfileRTSP>>[((i - 1) % 3) + 1])
    /\ \A j \in 1..Len(trace) :
          (trace[j].k = "ret" /\ trace[j].op = "init") => trace[j].n % 3 = 0 /\ trace[j].n >= 3

\* a step changes the collection only inside init, by appending one worker
OthersChangedOnlyByInit ==
    others' # others =>
        /\ cmdOp = "init"
        /\ Len(others') = Len(others) + 1
        /\ SubSeq(others', 1, Len(others)) = others

\* C19: the ordinary-worker collection is empty after construction, is
\* changed only by init, which appends workers for the RTMP, HTTP and RTSP
\* presets in that order, and is left unchanged in membership and order by
\* start, stop, destroy, run_loop and the three hooks.
C19_OthersChangedOnlyByInit ==
    /\ []OthersArePresetsInOrder
    /\ [][OthersChangedOnlyByInit]_vars

\* C19's case: after an init, a start and a hook have run over the
\* collection, which holds the three workers.
C19_Witness ==
    /\ cmdOp = "none"
    /\ Len(others) = 3
    /\ HasReturned("init")
    /\ HasReturned("start")
    /\ HasReturned("on_read")

====
